---- MODULE Spec2Model ----
(***************************************************************************)
(* A model of the Mython lexer (src/mython/lexer.cpp, lexer.h) and of the  *)
(* Mython object runtime (src/mython/runtime.cpp).                         *)
(*                                                                         *)
(* The lexer is modelled as the state machine of Lexer::ParseTokens over a *)
(* std::istream whose state bits (eofbit, failbit) are modelled as the     *)
(* standard library sets them.  Characters are one-character strings.      *)
(***************************************************************************)
EXTENDS Integers, Sequences, FiniteSets, TLC

VARIABLES
    token_input_,   \* the std::istream: [buf, pos, eofbit, failbit]
    vct_tokens_,    \* Lexer::vct_tokens_
    dent_,          \* Lexer::dent_
    current_token_, \* Lexer::current_token_, as an index into vct_tokens_
    pc,             \* the statement of Lexer::ParseTokens that runs next
    error_,         \* the exception that left the constructor, "" when none
    iter_start,     \* history: the stream position when the running loop
                    \* iteration of ParseTokens began
    api_            \* history: the last call of CurrentToken, NextToken, Expect
                    \* or ExpectNext and its outcome

lexVars == <<token_input_, vct_tokens_, dent_, current_token_, pc, error_, iter_start, api_>>

VARIABLES
    classes,        \* the runtime::Class objects constructed so far
    lookup          \* the last call of Class::GetMethod and what it returned

clsVars == <<classes, lookup>>

VARIABLES
    heap,           \* the runtime::ClassInstance objects created so far
    stack,          \* the ObjectHolders the evaluator keeps, by variable name
    call_           \* history: the last ClassInstance::Call and its outcome

VARIABLES
    cmp             \* the comparison that just returned, and its outcome

VARIABLES
    deref_          \* the dereference of a holder that just ended, and how

objVars == <<heap, stack, call_, cmp, deref_>>

----------------------------------------------------------------------------
(* Bounds of the model.                                                    *)

\* longest input text given to the lexer
MaxLen == 5

\* most classes constructed
MaxClasses == 3

\* most class instances created
MaxInstances == 1

----------------------------------------------------------------------------
(* Characters and their <cctype> classes.                                  *)

\* char_traits<char>::eof()
EOF == "EOF"

AlphaChars ==
    {"a", "b", "c", "d", "e", "f", "g", "h", "i", "j", "k", "l", "m", "n", "o", "p", "q", "r", "s", "t", "u", "v", "w", "x", "y", "z",
     "A", "B", "C", "D", "E", "F", "G", "H", "I", "J", "K", "L", "M", "N", "O", "P", "Q", "R", "S", "T", "U", "V", "W", "X", "Y", "Z"}
DigitChars == {"0", "1", "2", "3", "4", "5", "6", "7", "8", "9"}
\* (the grave accent, which a TLA+ string cannot hold, is left out)
PunctChars ==
    {"!", "\"", "#", "$", "%", "&", "'", "(", ")", "*", "+",
     ",", "-", ".", "/", ":", ";", "<", "=", ">", "?", "@",
     "[", "\\", "]", "^", "_", "{", "|", "}", "~"}

\* the classes of the "C" locale over ASCII: every other character (a tab,
\* a carriage return, a control character) is in none of them
isalpha(c) == c \in AlphaChars
isdigit(c) == c \in DigitChars
isalnum(c) == isalpha(c) \/ isdigit(c)
ispunct(c) == c \in PunctChars

----------------------------------------------------------------------------
(* std::istream: the unformatted input functions the lexer uses.  A        *)
(* function's sentry sets failbit when the stream is not good().           *)

good(in) == ~in.eofbit /\ ~in.failbit

\* the value of in.peek()
PeekChar(in) ==
    IF good(in) /\ in.pos <= Len(in.buf) THEN in.buf[in.pos] ELSE EOF

\* the stream after in.peek()
PeekStream(in) ==
    IF ~good(in) THEN [in EXCEPT !.failbit = TRUE]
    ELSE IF in.pos > Len(in.buf) THEN [in EXCEPT !.eofbit = TRUE]
    ELSE in

\* whether in.get(ch) extracts a character, and which
GetOk(in) == good(in) /\ in.pos <= Len(in.buf)
GetChar(in) == in.buf[in.pos]

\* the stream after in.get(ch) / in.get()
GetStream(in) ==
    IF ~good(in) THEN [in EXCEPT !.failbit = TRUE]
    ELSE IF in.pos > Len(in.buf) THEN [in EXCEPT !.eofbit = TRUE, !.failbit = TRUE]
    ELSE [in EXCEPT !.pos = @ + 1]

\* the stream after in.putback(c), c being the character read last:
\* eofbit is cleared first, then the sentry is built
Putback(in) ==
    LET t == [in EXCEPT !.eofbit = FALSE]
    IN  IF t.failbit THEN t ELSE [t EXCEPT !.pos = @ - 1]

\* in.rdstate() == ios_base::eofbit
RdstateIsEofbit(in) == in.eofbit /\ ~in.failbit

\* the stream after getline(in, tmp_str, '\n') called on a good stream that
\* has a character to read
RECURSIVE Getline(_)
Getline(in) ==
    IF in.pos > Len(in.buf) THEN [in EXCEPT !.eofbit = TRUE]
    ELSE IF in.buf[in.pos] = "\n" THEN [in EXCEPT !.pos = @ + 1]
    ELSE Getline([in EXCEPT !.pos = @ + 1])

----------------------------------------------------------------------------
(* Tokens.                                                                 *)

Tok(t) == [type |-> t]
ValTok(t, v) == [type |-> t, value |-> v]

Back(toks) == toks[Len(toks)]
BackIsNewline(toks) == toks # <<>> /\ Back(toks).type = "Newline"

\* A lexer state as the parsing methods see it: the stream, the members
\* vct_tokens_ and dent_, and the exception thrown ("" when none).
LexState(in, toks, dent) == [in |-> in, toks |-> toks, dent |-> dent, err |-> ""]

Throw(L, in, what) == [L EXCEPT !.in = in, !.err = what]

----------------------------------------------------------------------------
(* Lexer::TrimSpaces and Lexer::CheckEof                                   *)

RECURSIVE TrimSpaces(_)
TrimSpaces(in) ==
    IF PeekChar(in) = " " THEN TrimSpaces(GetStream(PeekStream(in)))
    ELSE PeekStream(in)

CheckEof(in) == PeekChar(in) = EOF

----------------------------------------------------------------------------
(* Lexer::ParseDent                                                        *)

DENT_SPACES == 2

\* while (in.get(ch) && (ch == ' ')) ++spaces_processed;
RECURSIVE CountSpaces(_, _, _)
CountSpaces(in, n, ch) ==
    IF ~GetOk(in) THEN [in |-> GetStream(in), n |-> n, ch |-> ch]
    ELSE IF GetChar(in) = " " THEN CountSpaces(GetStream(in), n + 1, " ")
    ELSE [in |-> GetStream(in), n |-> n, ch |-> GetChar(in)]

\* while (spaces_processed > 0) { spaces_processed -= DENT_SPACES; Indent; ++dent_; }
RECURSIVE IndentLoop(_, _)
IndentLoop(L, spaces_processed) ==
    IF spaces_processed > 0
    THEN IndentLoop([L EXCEPT !.toks = Append(@, Tok("Indent")), !.dent = @ + 1],
                    spaces_processed - DENT_SPACES)
    ELSE L

\* while (spaces_processed > 0) { spaces_processed -= DENT_SPACES; Dedent; --dent_; }
RECURSIVE DedentLoop(_, _)
DedentLoop(L, spaces_processed) ==
    IF spaces_processed > 0
    THEN DedentLoop([L EXCEPT !.toks = Append(@, Tok("Dedent")), !.dent = @ - 1],
                    spaces_processed - DENT_SPACES)
    ELSE L

\* lines 147-163: the comparison of the counted spaces with dent_
AdjustDent(L, spaces_processed) ==
    IF L.dent * DENT_SPACES < spaces_processed
    THEN IndentLoop(L, spaces_processed - L.dent * DENT_SPACES)
    ELSE IF L.dent * DENT_SPACES > spaces_processed
    THEN DedentLoop(L, L.dent * DENT_SPACES - spaces_processed)
    ELSE L

ParseDent(L) ==
    IF CheckEof(L.in) THEN [L EXCEPT !.in = PeekStream(L.in)]
    ELSE LET c == CountSpaces(L.in, 0, EOF)
         IN  IF ~RdstateIsEofbit(c.in)
             THEN LET L1 == [L EXCEPT !.in = Putback(c.in)]
                  IN  IF c.ch = "\n" THEN L1 ELSE AdjustDent(L1, c.n)
             ELSE AdjustDent([L EXCEPT !.in = c.in], c.n)

----------------------------------------------------------------------------
(* Lexer::ParseString                                                      *)

EscapeChars == {"n", "t", "r", "\"", "'", "\\"}

\* the switch of lines 183-205
Unescape(esc_ch) ==
    CASE esc_ch = "n" -> "\n"
      [] esc_ch = "t" -> "\t"
      [] esc_ch = "r" -> "\r"
      [] OTHER -> esc_ch

\* while (in.get(ch)) { ... } of lines 175-217; ch is the local the loop
\* reads into, which keeps its value when in.get(ch) extracts nothing
RECURSIVE ScanString(_, _, _, _)
ScanString(in, begin, result, ch) ==
    IF ~GetOk(in)
    THEN [in |-> GetStream(in), result |-> result, ch |-> ch, err |-> ""]
    ELSE LET c == GetChar(in)
             in1 == GetStream(in)
         IN  IF c = begin
             THEN [in |-> in1, result |-> result, ch |-> c, err |-> ""]
             ELSE IF c = "\\"
             THEN IF GetOk(in1)
                  THEN IF GetChar(in1) \in EscapeChars
                       THEN ScanString(GetStream(in1), begin,
                                       Append(result, Unescape(GetChar(in1))), c)
                       ELSE [in |-> GetStream(in1), result |-> result, ch |-> c,
                             err |-> "LexerError"]
                  ELSE [in |-> GetStream(in1), result |-> result, ch |-> c,
                        err |-> "LexerError"]
             ELSE IF c \in {"\n", "\r"}
             THEN [in |-> in1, result |-> result, ch |-> c, err |-> "LexerError"]
             ELSE ScanString(in1, begin, Append(result, c), c)

\* uninit is the value the uninitialised local ch of line 173 happens to hold
ParseString(L, uninit) ==
    IF CheckEof(L.in) THEN [L EXCEPT !.in = PeekStream(L.in)]
    ELSE LET begin == GetChar(L.in)
             in1 == GetStream(L.in)
         IN  IF begin \in {"'", "\""}
             THEN LET r == ScanString(in1, begin, <<>>, uninit)
                  IN  IF r.err # "" THEN Throw(L, r.in, r.err)
                      ELSE IF begin = r.ch
                      THEN [L EXCEPT !.in = r.in,
                                     !.toks = Append(@, ValTok("String", r.result))]
                      ELSE Throw(L, r.in, "LexerError")
             ELSE [L EXCEPT !.in = Putback(in1)]

\* whether ParseString reads the uninitialised ch: the stream ends right
\* after the opening quote
ReadsUninitialized(in) ==
    /\ ~CheckEof(in)
    /\ GetChar(in) \in {"'", "\""}
    /\ ~GetOk(GetStream(in))

----------------------------------------------------------------------------
(* Lexer::ParseKeywords                                                    *)

\* while (in.get(ch)) of lines 238-247
RECURSIVE ScanWord(_, _)
ScanWord(in, keyword) ==
    IF ~GetOk(in) THEN [in |-> GetStream(in), keyword |-> keyword]
    ELSE IF isalnum(GetChar(in)) \/ GetChar(in) = "_"
    THEN ScanWord(GetStream(in), Append(keyword, GetChar(in)))
    ELSE [in |-> Putback(GetStream(in)), keyword |-> keyword]

\* the chain of compare()s of lines 248-286
KeywordToken(keyword) ==
    CASE keyword = <<"c", "l", "a", "s", "s">> -> Tok("Class")
      [] keyword = <<"r", "e", "t", "u", "r", "n">> -> Tok("Return")
      [] keyword = <<"i", "f">> -> Tok("If")
      [] keyword = <<"e", "l", "s", "e">> -> Tok("Else")
      [] keyword = <<"d", "e", "f">> -> Tok("Def")
      [] keyword = <<"p", "r", "i", "n", "t">> -> Tok("Print")
      [] keyword = <<"a", "n", "d">> -> Tok("And")
      [] keyword = <<"o", "r">> -> Tok("Or")
      [] keyword = <<"n", "o", "t">> -> Tok("Not")
      [] keyword = <<"N", "o", "n", "e">> -> Tok("None")
      [] keyword = <<"T", "r", "u", "e">> -> Tok("True")
      [] keyword = <<"F", "a", "l", "s", "e">> -> Tok("False")
      [] OTHER -> ValTok("Id", keyword)

ParseKeywords(L) ==
    IF CheckEof(L.in) THEN [L EXCEPT !.in = PeekStream(L.in)]
    ELSE IF isalpha(PeekChar(L.in)) \/ PeekChar(L.in) = "_"
    THEN LET w == ScanWord(L.in, <<>>)
         IN  [L EXCEPT !.in = w.in, !.toks = Append(@, KeywordToken(w.keyword))]
    ELSE L

----------------------------------------------------------------------------
(* Lexer::ParseComments and Lexer::ParseChars                              *)

ParseComments(in) ==
    IF PeekChar(in) = "#"
    THEN LET in1 == Getline(in)
         IN  IF ~RdstateIsEofbit(in1) THEN Putback(in1) ELSE in1
    ELSE PeekStream(in)

\* the two-character operators of lines 302-317
TwoCharToken(ch) ==
    CASE ch = "=" -> Tok("Eq")
      [] ch = "!" -> Tok("NotEq")
      [] ch = ">" -> Tok("GreaterOrEq")
      [] ch = "<" -> Tok("LessOrEq")

ParseChars(L) ==
    IF CheckEof(L.in) THEN [L EXCEPT !.in = PeekStream(L.in)]
    ELSE LET ch == GetChar(L.in)
             in1 == GetStream(L.in)
         IN  IF ispunct(ch)
             THEN IF ch = "#"
                  THEN [L EXCEPT !.in = ParseComments(Putback(in1))]
                  ELSE IF ch \in {"=", "!", ">", "<"}
                  THEN IF PeekChar(in1) = "="
                       THEN [L EXCEPT !.in = GetStream(in1),
                                      !.toks = Append(@, TwoCharToken(ch))]
                       ELSE [L EXCEPT !.in = PeekStream(in1),
                                      !.toks = Append(@, ValTok("Char", ch))]
                  ELSE [L EXCEPT !.in = in1, !.toks = Append(@, ValTok("Char", ch))]
             ELSE [L EXCEPT !.in = Putback(in1)]

----------------------------------------------------------------------------
(* Lexer::ParseNumbers                                                     *)

\* the largest value of the int of token_type::Number
INT_MAX == 2147483647

DigitValue(c) ==
    CASE c = "0" -> 0 [] c = "1" -> 1 [] c = "2" -> 2 [] c = "3" -> 3
      [] c = "4" -> 4 [] c = "5" -> 5 [] c = "6" -> 6 [] c = "7" -> 7
      [] c = "8" -> 8 [] c = "9" -> 9

\* while (in.get(ch)) of lines 334-342
RECURSIVE ScanDigits(_, _)
ScanDigits(in, result) ==
    IF ~GetOk(in) THEN [in |-> GetStream(in), result |-> result]
    ELSE IF isdigit(GetChar(in))
    THEN ScanDigits(GetStream(in), Append(result, GetChar(in)))
    ELSE [in |-> Putback(GetStream(in)), result |-> result]

\* the decimal value of a digit string
RECURSIVE Decimal(_)
Decimal(result) ==
    IF result = <<>> THEN 0
    ELSE 10 * Decimal(SubSeq(result, 1, Len(result) - 1))
         + DigitValue(result[Len(result)])

\* whether std::stoi finds the value of the digit string out of the range of
\* int: acc is the value of the digits read so far, and the next digit d
\* overflows when 10 * acc + d > INT_MAX
RECURSIVE OutOfRange(_, _)
OutOfRange(result, acc) ==
    IF result = <<>> THEN FALSE
    ELSE LET d == DigitValue(result[1])
         IN  IF acc > (INT_MAX - d) \div 10 THEN TRUE
             ELSE OutOfRange(Tail(result), 10 * acc + d)

\* std::stoi throws std::out_of_range, which is no LexerError
ParseNumbers(L) ==
    IF CheckEof(L.in) THEN [L EXCEPT !.in = PeekStream(L.in)]
    ELSE IF isdigit(PeekChar(L.in))
    THEN LET d == ScanDigits(L.in, <<>>)
         IN  IF OutOfRange(d.result, 0)
             THEN Throw(L, d.in, "out_of_range")
             ELSE [L EXCEPT !.in = d.in,
                            !.toks = Append(@, ValTok("Number", Decimal(d.result)))]
    ELSE L

----------------------------------------------------------------------------
(* Lexer::ParseNewLine                                                     *)

\* a variant that emits a Newline for every line terminator
ParseNewLineMutant(L) ==
    IF PeekChar(L.in) = "\n"
    THEN ParseDent([L EXCEPT !.in = GetStream(L.in), !.toks = Append(@, Tok("Newline"))])
    ELSE [L EXCEPT !.in = PeekStream(L.in)]

ParseNewLine(L) ==
    IF PeekChar(L.in) = "\n"
    THEN LET L1 == [L EXCEPT !.in = GetStream(L.in),
                             !.toks = IF @ # <<>> /\ ~BackIsNewline(@)
                                      THEN Append(@, Tok("Newline")) ELSE @]
         IN  ParseDent(L1)
    ELSE [L EXCEPT !.in = PeekStream(L.in)]

----------------------------------------------------------------------------
(* Lexer::ParseTokens, lines 108-119: what follows the loop                *)

\* a variant that forgets the open indentation without closing it
CloseDentsMutant(L) == [L EXCEPT !.dent = 0]

\* while (dent_ > 0) { Dedent; --dent_; }
RECURSIVE CloseDents(_)
CloseDents(L) ==
    IF L.dent > 0
    THEN CloseDents([L EXCEPT !.toks = Append(@, Tok("Dedent")), !.dent = @ - 1])
    ELSE L

\* a variant that never appends the final Newline
FinalNewlineMutant(L) == L

FinalNewline(L) ==
    IF L.toks # <<>> /\ ~BackIsNewline(L.toks)
    THEN [L EXCEPT !.toks = Append(@, Tok("Newline"))]
    ELSE L

\* a variant that leaves an empty sequence empty
ParseTokensTailMutant(L) ==
    LET L1 == CloseDents(FinalNewline(L))
    IN  IF L1.toks = <<>> THEN L1 ELSE [L1 EXCEPT !.toks = Append(@, Tok("Eof"))]

ParseTokensTail(L) ==
    LET L1 == CloseDents(FinalNewline(L))
    IN  [L1 EXCEPT !.toks = Append(@, Tok("Eof"))]

----------------------------------------------------------------------------
(* runtime::Class: the constructor and GetMethod.  A class is known by its *)
(* index in `classes`; a const Method* is <<class, index in methods_>>,    *)
(* nullptr is <<0, 0>>; parent_ is a class index, 0 when nullptr.          *)

nullptr == <<0, 0>>

Method(name, formal_params) == [name |-> name, formal_params |-> formal_params]

\* for (const auto& method : methods) v_table_[method.name] = &method;
\* over the methods_ of class `owner`, from index i on
RECURSIVE FillVTable(_, _, _, _)
FillVTable(v_table_, owner, methods, i) ==
    IF i > Len(methods) THEN v_table_
    ELSE FillVTable([n \in DOMAIN v_table_ \cup {methods[i].name} |->
                        IF n = methods[i].name THEN <<owner, i>> ELSE v_table_[n]],
                    owner, methods, i + 1)

\* v_table_ as lines 120-129 fill it: from parent_->methods_, then from methods_
ClassVTable(cls, self, methods, parent) ==
    LET inherited == IF parent # 0
                     THEN FillVTable(<<>>, parent, cls[parent].methods_, 1)
                     ELSE <<>>
    IN  FillVTable(inherited, self, methods, 1)

\* Class::Class(name, methods, parent) constructing the class of index self
NewClass(cls, self, methods, parent) ==
    [methods_ |-> methods,
     parent_ |-> parent,
     v_table_ |-> ClassVTable(cls, self, methods, parent)]

\* Class::GetMethod
GetMethod(class, name) ==
    IF name \in DOMAIN class.v_table_ THEN class.v_table_[name] ELSE nullptr

\* the Method a const Method* points to
Deref(cls, p_method) == cls[p_method[1]].methods_[p_method[2]]

----------------------------------------------------------------------------
(* runtime::ObjectHolder.  A holder is [kind, val]: an empty holder (None), *)
(* a holder of a Bool, Number or String value, a holder of a Class, an     *)
(* owning holder of the ClassInstance heap[val] ("Own"), or the non-owning *)
(* holder ObjectHolder::Share makes of it ("Share": a shared_ptr whose     *)
(* deleter does nothing, and whose copies are non-owning as well).         *)

Holder(kind, val) == [kind |-> kind, val |-> val]

None == Holder("None", 0)
Own(i) == Holder("Own", i)

\* ObjectHolder::Share(object)
Share(i) == Holder("Share", i)

\* TryAs<ClassInstance>() != nullptr
IsInstance(h) == h.kind \in {"Own", "Share"}

\* ObjectHolder::AssertIsValid: assert(data_ != nullptr) holds.  The macro
\* is no code in a build that defines NDEBUG; where it fails the process is
\* aborted.
AssertIsValid(holder, NDEBUG) == NDEBUG \/ holder.kind # "None"

\* how a dereference ended: the exception it threw ("" when none), the
\* signal that terminated the process ("" when none) and the object it
\* yielded (None: no object, a null pointer or reference)
Dereferenced(threw, signal, object) ==
    [threw |-> threw, signal |-> signal, object |-> object]

\* the use of a null pointer or reference is undefined: the process is
\* terminated by the access, or goes on with no object
NullUses == {"crash", "null"}

\* ObjectHolder::Get
Get(holder) == holder

\* ObjectHolder::operator*: AssertIsValid(); return *Get();
Indirection(holder, NDEBUG, ub) ==
    IF ~AssertIsValid(holder, NDEBUG) THEN Dereferenced("", "SIGABRT", None)
    ELSE IF Get(holder) = None
    THEN IF ub = "crash" THEN Dereferenced("", "SIGSEGV", None)
         ELSE Dereferenced("", "", None)
    ELSE Dereferenced("", "", Get(holder))

\* ObjectHolder::operator->: AssertIsValid(); return Get();
MemberAccess(holder, NDEBUG) ==
    IF ~AssertIsValid(holder, NDEBUG) THEN Dereferenced("", "SIGABRT", None)
    ELSE Dereferenced("", "", Get(holder))

\* holder->member: operator-> and the access through the pointer it yields
MemberUse(holder, NDEBUG, ub) ==
    LET p == MemberAccess(holder, NDEBUG)
    IN  IF p.signal = "" /\ p.object = None /\ ub = "crash"
        THEN Dereferenced("", "SIGSEGV", None)
        ELSE p

\* the owning holders of instance i: its shared_ptr use count
UseCount(hp, stk, i) ==
    Cardinality({v \in DOMAIN stk : stk[v] = Own(i)})
    + Cardinality({jf \in UNION {{<<j, f>> : f \in DOMAIN hp[j].fields_} : j \in 1..Len(hp)} :
                     hp[jf[1]].alive /\ hp[jf[1]].fields_[jf[2]] = Own(i)})

\* ~ClassInstance of every instance no owning holder is left of; its fields_
\* are destroyed with it
RECURSIVE Destroy(_, _)
Destroy(hp, stk) ==
    LET dead == {i \in 1..Len(hp) : hp[i].alive /\ UseCount(hp, stk, i) = 0}
    IN  IF dead = {} THEN hp
        ELSE Destroy([i \in 1..Len(hp) |->
                         IF i \in dead
                         THEN [hp[i] EXCEPT !.alive = FALSE, !.fields_ = <<>>]
                         ELSE hp[i]], stk)

----------------------------------------------------------------------------
(* runtime::ClassInstance                                                  *)

\* ClassInstance::ClassInstance(cls)
NewInstance(c) == [class_ |-> c, fields_ |-> <<>>, alive |-> TRUE]

\* ClassInstance::HasMethod
HasMethod(cls, instance, method, argument_count) ==
    LET p_method == GetMethod(cls[instance.class_], method)
    IN  /\ nullptr # p_method
        /\ argument_count = Len(Deref(cls, p_method).formal_params)

\* for (i < param_size) closure[p_method->formal_params[i]] = actual_args[i];
RECURSIVE BindParams(_, _, _, _)
BindParams(closure, formal_params, actual_args, i) ==
    IF i > Len(formal_params) THEN closure
    ELSE BindParams([n \in DOMAIN closure \cup {formal_params[i]} |->
                        IF n = formal_params[i] THEN actual_args[i] ELSE closure[n]],
                    formal_params, actual_args, i + 1)

\* Executable::Execute(closure, context) of a method body.  The body is code
\* of the evaluator; `body` says what this execution does:
\*   "return_value"  return body.value
\*   "return"        return the variable body.name of the closure
\*   "assign_field"  self.<body.field> = <variable body.name>, return None
Body(do, name, field, value) == [do |-> do, name |-> name, field |-> field, value |-> value]

Execute(hp, body, closure) ==
    CASE body.do = "return_value" -> [heap |-> hp, result |-> body.value]
      [] body.do = "return" -> [heap |-> hp, result |-> closure[body.name]]
      [] body.do = "assign_field" ->
            LET self == closure["self"].val
                fields_ == hp[self].fields_
            IN  [heap |-> [hp EXCEPT ![self].fields_ =
                              [f \in DOMAIN fields_ \cup {body.field} |->
                                  IF f = body.field THEN closure[body.name] ELSE fields_[f]]],
                 result |-> None]

Range(seq) == {seq[i] : i \in 1..Len(seq)}

\* the variables a body reads
BodyReads(body) ==
    IF body.do = "return" THEN {body.name}
    ELSE IF body.do = "assign_field" THEN {"self", body.name}
    ELSE {}

\* a variant that answers None for an undefined method instead of throwing
CallMutant(cls, hp, self, method, actual_args, body) ==
    IF HasMethod(cls, hp[self], method, Len(actual_args))
    THEN LET p_method == GetMethod(cls[hp[self].class_], method)
             closure == BindParams([n \in {"self"} |-> Share(self)],
                                   Deref(cls, p_method).formal_params, actual_args, 1)
             r == Execute(hp, body, closure)
         IN  [threw |-> "", heap |-> r.heap, result |-> r.result,
              executed |-> <<p_method>>, closure |-> closure]
    ELSE [threw |-> "", heap |-> hp, result |-> None, executed |-> <<>>, closure |-> <<>>]

\* ClassInstance::Call on the instance heap[self]: what it throws ("" when
\* nothing), the heap after it, the holder it returns, the bodies it
\* executed and the closure it built
Call(cls, hp, self, method, actual_args, body) ==
    IF HasMethod(cls, hp[self], method, Len(actual_args))
    THEN LET p_method == GetMethod(cls[hp[self].class_], method)
             closure == BindParams([n \in {"self"} |-> Share(self)],
                                   Deref(cls, p_method).formal_params, actual_args, 1)
             r == Execute(hp, body, closure)
         IN  [threw |-> "", heap |-> r.heap, result |-> r.result,
              executed |-> <<p_method>>, closure |-> closure]
    ELSE [threw |-> "runtime_error: Call for an undefined method", heap |-> hp,
          result |-> None, executed |-> <<>>, closure |-> <<>>]

\* ClassInstance::Print of the instance heap[self]: the holder it
\* dereferenced (that of the result of __str__) and how that ended; without
\* a __str__ of no parameters it prints the address and dereferences nothing
\* (named Show here: Print is an operator of the TLC module)
Show(cls, hp, self, body, NDEBUG, ub) ==
    IF HasMethod(cls, hp[self], "__str__", 0)
    THEN LET r == Call(cls, hp, self, "__str__", <<>>, body)
         IN  [dereferenced |-> TRUE, holder |-> r.result,
              outcome |-> MemberUse(r.result, NDEBUG, ub)]
    ELSE [dereferenced |-> FALSE, holder |-> None, outcome |-> Dereferenced("", "", None)]

----------------------------------------------------------------------------
(* The comparison functions of runtime.cpp.  A comparison yields what it   *)
(* threw ("" when nothing), its value, the heap after it and the calls of  *)
(* methods it made.  `body` says what the body of a called __eq__ / __lt__ *)
(* does.  obj.TryAs<Bool>()->GetValue() on a holder of no Bool dereferences *)
(* a null pointer: `ub` is what that undefined behaviour does, "crash",    *)
(* "true" or "false".                                                      *)

Outcome(threw, value, hp, calls) ==
    [threw |-> threw, value |-> value, heap |-> hp, calls |-> calls]

\* one evaluation of the function f (Equal or Less): the outcome o of its
\* body, with the evaluation and what it returned or threw put on record
Evaluated(f, o) ==
    [threw |-> o.threw, value |-> o.value, heap |-> o.heap, calls |-> o.calls,
     evaluated |-> <<[f |-> f, threw |-> o.threw, value |-> o.value]>>]

\* the byte order of the characters the String values are made of
CharCode(c) == IF c = "a" THEN 97 ELSE 98

\* std::string operator<
RECURSIVE StringLess(_, _)
StringLess(a, b) ==
    IF b = <<>> THEN FALSE
    ELSE IF a = <<>> THEN TRUE
    ELSE IF CharCode(a[1]) # CharCode(b[1]) THEN CharCode(a[1]) < CharCode(b[1])
    ELSE StringLess(Tail(a), Tail(b))

\* lines 162-163 and 193-194: the call of the method and the value of
\* obj.TryAs<Bool>()->GetValue()
CallProtocolMethod(cls, hp, lhs, rhs, method, body, ub) ==
    LET r == Call(cls, hp, lhs.val, method, <<rhs>>, body)
        made == <<[self |-> lhs.val, method |-> method, actual_args |-> <<rhs>>,
                   result |-> r.result]>>
    IN  IF r.result.kind = "Bool" THEN Outcome("", r.result.val, r.heap, made)
        ELSE IF ub = "crash" THEN Outcome("crash", FALSE, r.heap, made)
        ELSE Outcome("", ub = "true", r.heap, made)

\* a variant in which values of different kinds are unequal instead of
\* incomparable
BuiltinEqualMutant(hp, lhs, rhs) ==
    IF lhs.kind = rhs.kind /\ lhs.kind \in {"Bool", "Number", "String"}
    THEN Outcome("", lhs.val = rhs.val, hp, <<>>)
    ELSE Outcome("", FALSE, hp, <<>>)

\* lines 167-185: Equal once no method of the left operand decides
BuiltinEqual(hp, lhs, rhs) ==
    IF lhs.kind = "Bool" /\ rhs.kind = "Bool" THEN Outcome("", lhs.val = rhs.val, hp, <<>>)
    ELSE IF lhs.kind = "Number" /\ rhs.kind = "Number"
    THEN Outcome("", lhs.val = rhs.val, hp, <<>>)
    ELSE IF lhs.kind = "String" /\ rhs.kind = "String"
    THEN Outcome("", lhs.val = rhs.val, hp, <<>>)
    ELSE Outcome("runtime_error: Cannot compare objects for equality", FALSE, hp, <<>>)

Equal(cls, hp, lhs, rhs, body, ub) ==
    Evaluated("Equal",
        IF lhs.kind = "None" /\ rhs.kind = "None" THEN Outcome("", TRUE, hp, <<>>)
        ELSE IF IsInstance(lhs) /\ HasMethod(cls, hp[lhs.val], "__eq__", 1)
        THEN CallProtocolMethod(cls, hp, lhs, rhs, "__eq__", body, ub)
        ELSE BuiltinEqual(hp, lhs, rhs))

\* lines 198-216: Less once no method of the left operand decides
BuiltinLess(hp, lhs, rhs) ==
    IF lhs.kind = "Bool" /\ rhs.kind = "Bool"
    THEN Outcome("", ~lhs.val /\ rhs.val, hp, <<>>)
    ELSE IF lhs.kind = "Number" /\ rhs.kind = "Number"
    THEN Outcome("", lhs.val < rhs.val, hp, <<>>)
    ELSE IF lhs.kind = "String" /\ rhs.kind = "String"
    THEN Outcome("", StringLess(lhs.val, rhs.val), hp, <<>>)
    ELSE Outcome("runtime_error: Cannot compare objects for less", FALSE, hp, <<>>)

\* a variant that falls back on the __lt__ of the right operand
LessMutant(cls, hp, lhs, rhs, body, ub) ==
    Evaluated("Less",
        IF IsInstance(lhs) /\ HasMethod(cls, hp[lhs.val], "__lt__", 1)
        THEN CallProtocolMethod(cls, hp, lhs, rhs, "__lt__", body, ub)
        ELSE IF IsInstance(rhs) /\ HasMethod(cls, hp[rhs.val], "__lt__", 1)
        THEN CallProtocolMethod(cls, hp, rhs, lhs, "__lt__", body, ub)
        ELSE BuiltinLess(hp, lhs, rhs))

Less(cls, hp, lhs, rhs, body, ub) ==
    Evaluated("Less",
        IF IsInstance(lhs) /\ HasMethod(cls, hp[lhs.val], "__lt__", 1)
        THEN CallProtocolMethod(cls, hp, lhs, rhs, "__lt__", body, ub)
        ELSE BuiltinLess(hp, lhs, rhs))

\* a variant in which every class instance is true
IsTrueMutant(object) ==
    \/ object.kind = "Bool" /\ object.val
    \/ object.kind = "Number" /\ object.val # 0
    \/ object.kind = "String" /\ object.val # <<>>
    \/ IsInstance(object)

\* IsTrue of lines 46-63
IsTrue(object) ==
    IF object.kind # "None"
    THEN IF object.kind = "Bool" /\ object.val THEN TRUE
         ELSE IF object.kind = "Number" /\ object.val # 0 THEN TRUE
         ELSE IF object.kind = "String" /\ object.val # <<>> THEN TRUE
         ELSE FALSE
    ELSE FALSE

\* the outcome of !f(...): what f threw, or the negation of its value
Negated(o) == IF o.threw # "" THEN o ELSE [o EXCEPT !.value = ~@]

\* a variant whose disjunction does not short-circuit: Equal is evaluated
\* whatever Less returned
LessOrElseEqualMutant(cls, hp, lhs, rhs, body_lt, body_eq, ub_lt, ub_eq) ==
    LET lt == Less(cls, hp, lhs, rhs, body_lt, ub_lt)
    IN  IF lt.threw # "" THEN lt
        ELSE LET eq == Equal(cls, lt.heap, lhs, rhs, body_eq, ub_eq)
             IN  [threw |-> eq.threw, value |-> lt.value \/ eq.value, heap |-> eq.heap,
                  calls |-> lt.calls \o eq.calls,
                  evaluated |-> lt.evaluated \o eq.evaluated]

\* Less(lhs, rhs, context) || Equal(lhs, rhs, context): Equal is evaluated
\* only when Less returned false, on the heap Less left
LessOrElseEqual(cls, hp, lhs, rhs, body_lt, body_eq, ub_lt, ub_eq) ==
    LET lt == Less(cls, hp, lhs, rhs, body_lt, ub_lt)
    IN  IF lt.threw # "" \/ lt.value THEN lt
        ELSE LET eq == Equal(cls, lt.heap, lhs, rhs, body_eq, ub_eq)
             IN  [threw |-> eq.threw, value |-> eq.value, heap |-> eq.heap,
                  calls |-> lt.calls \o eq.calls,
                  evaluated |-> lt.evaluated \o eq.evaluated]

NotEqual(cls, hp, lhs, rhs, body, ub) == Negated(Equal(cls, hp, lhs, rhs, body, ub))

\* a variant that takes > for the negation of <
GreaterMutant(cls, hp, lhs, rhs, body_lt, body_eq, ub_lt, ub_eq) ==
    Negated(Less(cls, hp, lhs, rhs, body_lt, ub_lt))

Greater(cls, hp, lhs, rhs, body_lt, body_eq, ub_lt, ub_eq) ==
    Negated(LessOrElseEqual(cls, hp, lhs, rhs, body_lt, body_eq, ub_lt, ub_eq))

LessOrEqual(cls, hp, lhs, rhs, body_lt, body_eq, ub_lt, ub_eq) ==
    LessOrElseEqual(cls, hp, lhs, rhs, body_lt, body_eq, ub_lt, ub_eq)

GreaterOrEqual(cls, hp, lhs, rhs, body, ub) == Negated(Less(cls, hp, lhs, rhs, body, ub))

----------------------------------------------------------------------------
(* Constructing classes and looking methods up.                            *)

MethodNames == {"f", "g"}

\* the methods a class of this specification declares
ClassMethodLists ==
    {<<>>, <<Method("f", <<>>)>>, <<Method("g", <<>>)>>,
     <<Method("f", <<>>), Method("g", <<>>)>>}

NoLookup == [class |-> 0, name |-> "", p_method |-> nullptr]

ClsInit ==
    /\ classes = <<>>
    /\ lookup = NoLookup

\* Class::Class
Class(methods, parent) ==
    /\ Len(classes) < MaxClasses
    /\ classes' = Append(classes, NewClass(classes, Len(classes) + 1, methods, parent))
    /\ UNCHANGED <<lookup, lexVars, objVars>>

\* Class::GetMethod
Class_GetMethod(c, name) ==
    /\ lookup' = [class |-> c, name |-> name, p_method |-> GetMethod(classes[c], name)]
    /\ UNCHANGED <<classes, lexVars, objVars>>

ClsNext ==
    \/ \E methods \in ClassMethodLists, parent \in 0..Len(classes) : Class(methods, parent)
    \/ \E c \in 1..Len(classes), name \in MethodNames : Class_GetMethod(c, name)

\* the nearest class of the parent chain of c, c first, that declares name;
\* 0 when none does
RECURSIVE NearestDeclaring(_, _, _)
NearestDeclaring(cls, c, name) ==
    IF c = 0 THEN 0
    ELSE IF \E i \in 1..Len(cls[c].methods_) : cls[c].methods_[i].name = name THEN c
    ELSE NearestDeclaring(cls, cls[c].parent_, name)

\* C1: GetMethod(name) returns the method of the nearest class of the parent
\* chain, the class itself first, that declares name, and nullptr only when
\* no class of the chain declares it.
C1_NearestInChain ==
    lookup.class # 0 =>
        /\ lookup.p_method[1] = NearestDeclaring(classes, lookup.class, lookup.name)
        /\ lookup.p_method # nullptr => Deref(classes, lookup.p_method).name = lookup.name

----------------------------------------------------------------------------
(* Creating instances, calling their methods and dropping their holders.   *)

\* the method lists of the two classes of this specification
CallMethodLists ==
    {<<>>,
     <<Method("f", <<"x">>)>>,
     <<Method("f", <<"x", "y">>)>>,
     <<Method("f", <<>>), Method("g", <<"x">>)>>}

\* a base class and a class derived from it
Program(base, derived) ==
    LET A == <<NewClass(<<>>, 1, base, 0)>>
    IN  Append(A, NewClass(A, 2, derived, 1))

\* the names the evaluator calls
CalledNames == {"f", "g", "h"}

\* the variables of the evaluator
StackNames == {"v", "w"}

ArgLists ==
    {<<>>, <<Holder("Number", 1)>>, <<None, Holder("Number", 1)>>,
     <<Holder("Number", 1), Holder("Number", 2)>>}

Bodies ==
    {Body("return_value", "", "", Holder("Number", 3))}
    \cup {Body("return", n, "", None) : n \in {"self", "x", "y"}}
    \cup {Body("assign_field", n, "f", None) : n \in {"self", "x"}}

\* no call has returned a result the evaluator still has to take
NoCall ==
    [self |-> 0, method |-> "", actual_args |-> <<>>, body |-> Body("", "", "", None),
     threw |-> "", result |-> None, executed |-> <<>>, closure |-> <<>>,
     fields_before |-> <<>>, fields_after |-> <<>>,
     use_count_before |-> 0, use_count_after |-> 0]

\* no dereference has ended that the evaluator still has to take
NoDeref ==
    [op |-> "", dereferenced |-> FALSE, holder |-> None, NDEBUG |-> FALSE,
     threw |-> "", signal |-> "", object |-> None]

ObjIdle ==
    /\ deref_ = NoDeref
    /\ heap = <<>>
    /\ stack = [v \in StackNames |-> None]
    /\ call_ = NoCall
    /\ cmp = [op |-> "", lhs |-> None, rhs |-> None, threw |-> "", value |-> FALSE,
              calls |-> <<>>, evaluated |-> <<>>]

CallInit ==
    /\ classes \in {Program(base, derived) : base, derived \in CallMethodLists}
    /\ lookup = NoLookup
    /\ ObjIdle

\* the holders the evaluator keeps: its variables and the result of the call
\* that just returned
Kept(stk, result) == [n \in DOMAIN stk \cup {"(result)"} |->
                         IF n = "(result)" THEN result ELSE stk[n]]

\* the evaluator creates an instance of class c and keeps its owning holder
\* in variable v
ClassInstance(v, c) ==
    /\ call_ = NoCall
    /\ Len(heap) < MaxInstances
    /\ LET hp == Append(heap, NewInstance(c))
           stk == [stack EXCEPT ![v] = Own(Len(hp))]
       IN  /\ stack' = stk
           /\ heap' = Destroy(hp, Kept(stk, None))
    /\ UNCHANGED <<call_, cmp, deref_, lexVars, clsVars>>

\* the evaluator calls a method of the instance variable v holds; call_ keeps
\* what the call returned or threw (a body reads only variables of its
\* scope: the evaluator fails on any other before it gets to the runtime)
ClassInstance_Call(v, method, actual_args, body) ==
    /\ call_ = NoCall
    /\ IsInstance(stack[v])
    /\ heap[stack[v].val].alive
    /\ LET self == stack[v].val
           r == Call(classes, heap, self, method, actual_args, body)
       IN  /\ HasMethod(classes, heap[self], method, Len(actual_args)) =>
                  BodyReads(body) \subseteq
                     {"self"} \cup Range(Deref(classes, GetMethod(classes[heap[self].class_],
                                                                 method)).formal_params)
           /\ heap' = r.heap
           /\ call_' = [self |-> self, method |-> method, actual_args |-> actual_args,
                        body |-> body, threw |-> r.threw, result |-> r.result,
                        executed |-> r.executed, closure |-> r.closure,
                        fields_before |-> heap[self].fields_,
                        fields_after |-> r.heap[self].fields_,
                        use_count_before |-> UseCount(heap, Kept(stack, None), self),
                        use_count_after |-> UseCount(r.heap, Kept(stack, r.result), self)]
    /\ UNCHANGED <<stack, cmp, deref_, lexVars, clsVars>>

\* the evaluator assigns the result of the call to variable target
Assign(target) ==
    /\ call_ # NoCall
    /\ call_.threw = ""
    /\ LET stk == [stack EXCEPT ![target] = call_.result]
       IN  /\ stack' = stk
           /\ heap' = Destroy(heap, Kept(stk, None))
    /\ call_' = NoCall
    /\ UNCHANGED <<cmp, deref_, lexVars, clsVars>>

\* the evaluator discards the result of the call, or handles what it threw
Discard ==
    /\ call_ # NoCall
    /\ heap' = Destroy(heap, Kept(stack, None))
    /\ call_' = NoCall
    /\ UNCHANGED <<stack, cmp, deref_, lexVars, clsVars>>

\* the evaluator drops the holder in variable v
Drop(v) ==
    /\ call_ = NoCall
    /\ stack[v] # None
    /\ LET stk == [stack EXCEPT ![v] = None]
       IN  /\ stack' = stk
           /\ heap' = Destroy(heap, Kept(stk, None))
    /\ UNCHANGED <<call_, cmp, deref_, lexVars, clsVars>>

CallNext ==
    \/ \E v \in StackNames, c \in 1..Len(classes) : ClassInstance(v, c)
    \/ \E v \in StackNames, method \in CalledNames,
          actual_args \in ArgLists, body \in Bodies :
          ClassInstance_Call(v, method, actual_args, body)
    \/ \E target \in StackNames : Assign(target)
    \/ Discard
    \/ \E v \in StackNames : Drop(v)

\* every holder the evaluator or a live instance keeps
LiveHolders ==
    {stack[v] : v \in StackNames}
    \cup {call_.result}
    \cup UNION {{heap[i].fields_[f] : f \in DOMAIN heap[i].fields_} :
                  i \in {j \in 1..Len(heap) : heap[j].alive}}

\* the dispatch table of the class of the called instance resolves the called
\* name to a method with as many formal parameters as the call has arguments
CallResolves ==
    LET v_table_ == classes[heap[call_.self].class_].v_table_
    IN  /\ call_.method \in DOMAIN v_table_
        /\ Len(Deref(classes, v_table_[call_.method]).formal_params) = Len(call_.actual_args)

\* the scope the specification gives the body: self and the formal
\* parameters, each bound to the actual argument of its position
CallScope ==
    LET formal_params ==
            Deref(classes, classes[heap[call_.self].class_].v_table_[call_.method]).formal_params
    IN  [n \in {"self"} \cup {formal_params[i] : i \in 1..Len(formal_params)} |->
            IF n = "self" THEN Share(call_.self)
            ELSE call_.actual_args[CHOOSE i \in 1..Len(formal_params) : formal_params[i] = n]]

\* C7: Call executes a body iff the dispatch table resolves the name to a
\* method of exactly |args| formal parameters; then it executes that body
\* once, in a scope of self and the positionally bound parameters, and
\* returns its result; otherwise it fails with "undefined method", executes
\* nothing and leaves the fields of the instance as they were.
C7_CallIffHasMethod ==
    call_.self # 0 =>
        /\ call_.executed # <<>> <=> CallResolves
        /\ CallResolves =>
              /\ call_.threw = ""
              /\ call_.executed =
                    <<classes[heap[call_.self].class_].v_table_[call_.method]>>
              /\ call_.closure = CallScope
              /\ call_.body.do = "return" => call_.result = CallScope[call_.body.name]
              /\ call_.body.do = "return_value" => call_.result = call_.body.value
        /\ ~CallResolves =>
              /\ call_.threw = "runtime_error: Call for an undefined method"
              /\ call_.executed = <<>>
              /\ call_.fields_after = call_.fields_before

\* a call through the derived class ran an inherited two-parameter method
\* and returned its second argument
C7_Witness ==
    /\ call_.self # 0
    /\ heap[call_.self].class_ = 2
    /\ call_.executed = <<<<1, 1>>>>
    /\ Len(call_.actual_args) = 2
    /\ call_.body = Body("return", "y", "", None)
    /\ call_.result = Holder("Number", 2)

\* C10: no non-owning holder Call made for self is left once the instance it
\* refers to is destroyed, and a Call leaves the use count of the instance
\* as it was.
C10_NoSelfHolderOutlives ==
    /\ \A h \in LiveHolders : h.kind = "Share" => heap[h.val].alive
    /\ call_.use_count_after = call_.use_count_before

----------------------------------------------------------------------------
(* Dereferencing holders.                                                  *)

\* the method lists of the two classes of this specification
StrMethodLists ==
    {<<>>, <<Method("__str__", <<>>)>>, <<Method("__str__", <<"x">>)>>}

\* the holders the evaluator dereferences: the empty one, holders of values,
\* of a class and of the two instances, owning and not
HolderValues ==
    {None, Holder("Bool", TRUE), Holder("Number", 1), Holder("String", <<"a">>),
     Holder("Class", 1), Own(1), Own(2), Share(1)}

\* what the body of a called __str__ returns
StrBodies ==
    {Body("return_value", "", "", Holder("String", <<"a">>)),
     Body("return_value", "", "", Holder("Number", 1)),
     Body("return_value", "", "", None)}

\* a base class, a class derived from it, and one instance of each
HolderInit ==
    /\ classes \in {Program(base, derived) : base, derived \in StrMethodLists}
    /\ lookup = NoLookup
    /\ heap = <<NewInstance(1), NewInstance(2)>>
    /\ stack = [v \in StackNames |-> IF v = "v" THEN Own(1) ELSE Own(2)]
    /\ call_ = NoCall
    /\ cmp = [op |-> "", lhs |-> None, rhs |-> None, threw |-> "", value |-> FALSE,
              calls |-> <<>>, evaluated |-> <<>>]
    /\ deref_ = NoDeref

\* the evaluator takes the object of a holder with operator*
Dereference(holder, NDEBUG, ub) ==
    /\ deref_ = NoDeref
    /\ LET r == Indirection(holder, NDEBUG, ub)
       IN  deref_' = [op |-> "operator*", dereferenced |-> TRUE, holder |-> holder,
                      NDEBUG |-> NDEBUG, threw |-> r.threw, signal |-> r.signal,
                      object |-> r.object]
    /\ UNCHANGED <<heap, stack, call_, cmp, lexVars, clsVars>>

\* the evaluator uses a member of the object of a holder with operator->
DereferenceMember(holder, NDEBUG, ub) ==
    /\ deref_ = NoDeref
    /\ LET r == MemberUse(holder, NDEBUG, ub)
       IN  deref_' = [op |-> "operator->", dereferenced |-> TRUE, holder |-> holder,
                      NDEBUG |-> NDEBUG, threw |-> r.threw, signal |-> r.signal,
                      object |-> r.object]
    /\ UNCHANGED <<heap, stack, call_, cmp, lexVars, clsVars>>

\* the evaluator prints the instance variable v holds
ClassInstance_Show(v, body, NDEBUG, ub) ==
    /\ deref_ = NoDeref
    /\ LET r == Show(classes, heap, stack[v].val, body, NDEBUG, ub)
       IN  deref_' = [op |-> "Print", dereferenced |-> r.dereferenced, holder |-> r.holder,
                      NDEBUG |-> NDEBUG, threw |-> r.outcome.threw,
                      signal |-> r.outcome.signal, object |-> r.outcome.object]
    /\ UNCHANGED <<heap, stack, call_, cmp, lexVars, clsVars>>

\* the evaluator goes on after a dereference that did not end the process
Dereferenced_Resume ==
    /\ deref_ # NoDeref
    /\ deref_.signal = ""
    /\ deref_' = NoDeref
    /\ UNCHANGED <<heap, stack, call_, cmp, lexVars, clsVars>>

HolderNext ==
    \/ \E holder \in HolderValues, NDEBUG \in BOOLEAN, ub \in NullUses :
          Dereference(holder, NDEBUG, ub)
    \/ \E holder \in HolderValues, NDEBUG \in BOOLEAN, ub \in NullUses :
          DereferenceMember(holder, NDEBUG, ub)
    \/ \E v \in StackNames, body \in StrBodies, NDEBUG \in BOOLEAN, ub \in NullUses :
          ClassInstance_Show(v, body, NDEBUG, ub)
    \/ Dereferenced_Resume

----------------------------------------------------------------------------
(* Comparing values.                                                       *)

\* the method lists of the two classes of this specification
CmpMethodLists ==
    {<<>>,
     <<Method("__eq__", <<"x">>), Method("__lt__", <<"x">>)>>,
     <<Method("__eq__", <<>>), Method("__lt__", <<"x", "y">>)>>}

\* the operands: an empty holder, Bools, Numbers, Strings, a Class, and the
\* instances of the base and of the derived class
Operands ==
    {None, Holder("Bool", FALSE), Holder("Bool", TRUE),
     Holder("Number", 0), Holder("Number", 1),
     Holder("String", <<>>), Holder("String", <<"a">>), Holder("String", <<"a", "b">>),
     Holder("String", <<"b">>),
     Holder("Class", 1), Own(1), Own(2)}

\* what the body of a called __eq__ or __lt__ does
CmpBodies ==
    {Body("return_value", "", "", Holder("Bool", TRUE)),
     Body("return_value", "", "", Holder("Bool", FALSE)),
     Body("return_value", "", "", Holder("Number", 1)),
     Body("return", "x", "", None)}

UBOutcomes == {"crash", "true", "false"}

\* the comparisons that evaluate one of Equal and Less, and those that may
\* evaluate both
Comparisons == {"Equal", "Less", "NotEqual", "GreaterOrEqual"}
Comparisons2 == {"Greater", "LessOrEqual"}

NoCmp ==
    [op |-> "", lhs |-> None, rhs |-> None, threw |-> "", value |-> FALSE, calls |-> <<>>,
     evaluated |-> <<>>]

CmpIdle == cmp = NoCmp

\* a base class, a class derived from it, and one instance of each
CmpInit ==
    /\ classes \in {Program(base, derived) : base, derived \in CmpMethodLists}
    /\ lookup = NoLookup
    /\ heap = <<NewInstance(1),
                [NewInstance(2) EXCEPT !.fields_ = [f \in {"x"} |-> Holder("Number", 1)]]>>
    /\ stack = [v \in StackNames |-> IF v = "v" THEN Own(1) ELSE Own(2)]
    /\ call_ = NoCall
    /\ cmp = NoCmp
    /\ deref_ = NoDeref

Comparison(op, lhs, rhs, body, ub) ==
    CASE op = "Equal" -> Equal(classes, heap, lhs, rhs, body, ub)
      [] op = "Less" -> Less(classes, heap, lhs, rhs, body, ub)
      [] op = "NotEqual" -> NotEqual(classes, heap, lhs, rhs, body, ub)
      [] op = "GreaterOrEqual" -> GreaterOrEqual(classes, heap, lhs, rhs, body, ub)

Comparison2(op, lhs, rhs, body_lt, body_eq, ub_lt, ub_eq) ==
    CASE op = "Greater" ->
            Greater(classes, heap, lhs, rhs, body_lt, body_eq, ub_lt, ub_eq)
      [] op = "LessOrEqual" ->
            LessOrEqual(classes, heap, lhs, rhs, body_lt, body_eq, ub_lt, ub_eq)

\* the protocol method a comparison consults
ProtocolMethod(op) == IF op = "Equal" THEN "__eq__" ELSE "__lt__"

\* the evaluator compares two values
Compare(op, lhs, rhs, body, ub) ==
    /\ cmp = NoCmp
    /\ LET r == Comparison(op, lhs, rhs, body, ub)
       IN  /\ heap' = r.heap
           /\ cmp' = [op |-> op, lhs |-> lhs, rhs |-> rhs, threw |-> r.threw,
                      value |-> r.value, calls |-> r.calls, evaluated |-> r.evaluated]
    /\ UNCHANGED <<stack, call_, deref_, lexVars, clsVars>>

\* the evaluator compares two values with > or <=
Compare2(op, lhs, rhs, body_lt, body_eq, ub_lt, ub_eq) ==
    /\ cmp = NoCmp
    /\ LET r == Comparison2(op, lhs, rhs, body_lt, body_eq, ub_lt, ub_eq)
       IN  /\ heap' = r.heap
           /\ cmp' = [op |-> op, lhs |-> lhs, rhs |-> rhs, threw |-> r.threw,
                      value |-> r.value, calls |-> r.calls, evaluated |-> r.evaluated]
    /\ UNCHANGED <<stack, call_, deref_, lexVars, clsVars>>

\* the values whose truth the evaluator tests
TruthOperands == Operands \cup {Holder("Number", -1)}

\* the evaluator tests a value for truth
Truth(object) ==
    /\ cmp = NoCmp
    /\ cmp' = [op |-> "IsTrue", lhs |-> object, rhs |-> None, threw |-> "",
               value |-> IsTrue(object), calls |-> <<>>, evaluated |-> <<>>]
    /\ UNCHANGED <<heap, stack, call_, deref_, lexVars, clsVars>>

\* the evaluator takes the result of the comparison
Compared ==
    /\ cmp # NoCmp
    /\ cmp' = NoCmp
    /\ UNCHANGED <<heap, stack, call_, deref_, lexVars, clsVars>>

\* only an instance on the left can have a method called: for any other
\* left operand one body and one outcome stand for all
BodiesFor(lhs) == IF IsInstance(lhs) THEN CmpBodies ELSE {Body("return_value", "", "", None)}
UBOutcomesFor(lhs) == IF IsInstance(lhs) THEN UBOutcomes ELSE {"crash"}

CmpNext ==
    \/ \E op \in Comparisons, lhs, rhs \in Operands :
          \E body \in BodiesFor(lhs), ub \in UBOutcomesFor(lhs) :
             Compare(op, lhs, rhs, body, ub)
    \/ \E op \in Comparisons2, lhs, rhs \in Operands :
          \E body_lt, body_eq \in BodiesFor(lhs), ub_lt, ub_eq \in UBOutcomesFor(lhs) :
             Compare2(op, lhs, rhs, body_lt, body_eq, ub_lt, ub_eq)
    \/ \E object \in TruthOperands : Truth(object)
    \/ Compared

\* the left operand of cmp is an instance whose class resolves the protocol
\* method of cmp.op to a method of exactly one formal parameter
LeftOverrides ==
    /\ IsInstance(cmp.lhs)
    /\ LET v_table_ == classes[heap[cmp.lhs.val].class_].v_table_
           method == ProtocolMethod(cmp.op)
       IN  /\ method \in DOMAIN v_table_
           /\ Len(Deref(classes, v_table_[method]).formal_params) = 1

BuiltinKinds == {"Bool", "Number", "String"}

\* the natural equality and order of two values of one built-in kind
NaturalEqual(l, r) == l.val = r.val
NaturalLess(l, r) ==
    CASE l.kind = "Bool" -> l.val = FALSE /\ r.val = TRUE
      [] l.kind = "Number" -> l.val < r.val
      [] l.kind = "String" ->
            \/ /\ Len(l.val) < Len(r.val)
               /\ SubSeq(r.val, 1, Len(l.val)) = l.val
            \/ \E k \in 1..Len(l.val) :
                  /\ k <= Len(r.val)
                  /\ SubSeq(l.val, 1, k - 1) = SubSeq(r.val, 1, k - 1)
                  /\ CharCode(l.val[k]) < CharCode(r.val[k])

CannotCompare ==
    IF cmp.op = "Equal" THEN "runtime_error: Cannot compare objects for equality"
    ELSE "runtime_error: Cannot compare objects for less"

\* C4 as stated: Equal(None, Number(0)) returns false.
C4_EqualNoneNumberIsFalse ==
    (cmp.op = "Equal" /\ cmp.lhs = None /\ cmp.rhs = Holder("Number", 0))
        => (cmp.threw = "" /\ cmp.value = FALSE)

\* C4 amended: Equal(None, Number(0)) returns no value: it fails with the
\* "cannot compare" runtime error.
C4_EqualNoneNumberThrows ==
    (cmp.op = "Equal" /\ cmp.lhs = None /\ cmp.rhs = Holder("Number", 0))
        => cmp.threw = "runtime_error: Cannot compare objects for equality"

\* Equal(None, Number(0)) was evaluated
C4_Witness ==
    cmp.op = "Equal" /\ cmp.lhs = None /\ cmp.rhs = Holder("Number", 0) /\ cmp.threw # ""

\* C6: Equal and Less are decided by the left operand first: both operands
\* empty make Equal true; else an instance on the left whose class resolves
\* __eq__ / __lt__ with one formal parameter has that method called once with
\* the right operand, and the Bool it returns is the result; else two
\* operands of one built-in kind compare naturally; else the call fails with
\* "cannot compare".  No method of the right operand is called.
C6_ThreeTiers ==
    cmp.op \in {"Equal", "Less"} =>
        IF cmp.op = "Equal" /\ cmp.lhs = None /\ cmp.rhs = None
        THEN cmp.threw = "" /\ cmp.value = TRUE /\ cmp.calls = <<>>
        ELSE IF LeftOverrides
        THEN /\ Len(cmp.calls) = 1
             /\ cmp.calls[1].self = cmp.lhs.val
             /\ cmp.calls[1].method = ProtocolMethod(cmp.op)
             /\ cmp.calls[1].actual_args = <<cmp.rhs>>
             /\ cmp.calls[1].result.kind = "Bool" =>
                   (cmp.threw = "" /\ cmp.value = cmp.calls[1].result.val)
        ELSE IF cmp.lhs.kind \in BuiltinKinds /\ cmp.rhs.kind = cmp.lhs.kind
        THEN /\ cmp.threw = ""
             /\ cmp.calls = <<>>
             /\ cmp.value = IF cmp.op = "Equal" THEN NaturalEqual(cmp.lhs, cmp.rhs)
                            ELSE NaturalLess(cmp.lhs, cmp.rhs)
        ELSE cmp.threw = CannotCompare /\ cmp.calls = <<>>

\* Less of an instance of the derived class, which inherits __lt__(x), and a
\* String called the method and returned the false it returned
C6_Witness ==
    /\ cmp.op = "Less"
    /\ cmp.lhs = Own(2)
    /\ cmp.rhs.kind = "String"
    /\ Len(cmp.calls) = 1
    /\ cmp.calls[1].result = Holder("Bool", FALSE)
    /\ cmp.threw = ""
    /\ cmp.value = FALSE
    /\ "__lt__" \notin {classes[2].methods_[i].name : i \in 1..Len(classes[2].methods_)}

----------------------------------------------------------------------------
(* The lexer as a state machine: Lexer::Lexer runs ParseTokens, one action *)
(* per statement of its loop.                                              *)

\* the characters the input texts are made of
Alphabet == {"a", " ", "\n", "#", "\t", "'", "1"}

Texts(alphabet) == UNION {[1..n -> alphabet] : n \in 0..MaxLen}

\* the values the uninitialised char of ParseString may hold: either quote,
\* or anything else
UninitChars == {"'", "\"", "x"}

Cur == LexState(token_input_, vct_tokens_, dent_)

\* no call of the token interface was made yet
NoApi == [op |-> "", T |-> "", value |-> "", before |-> 0, threw |-> "", ret |-> Tok("")]

\* while (token_input_): operator bool is !fail()
LoopTest(in) == IF ~in.failbit THEN "ParseString" ELSE "Tail"

\* the members after a parsing method returned L (or threw L.err), the
\* statement `next` following it
Commit(L, next) ==
    /\ token_input_' = L.in
    /\ vct_tokens_' = L.toks
    /\ dent_' = L.dent
    /\ pc' = IF L.err # "" THEN "error" ELSE next
    /\ error_' = L.err
    /\ UNCHANGED <<current_token_, api_, clsVars, objVars>>

LexInit(alphabet) ==
    /\ ClsInit
    /\ ObjIdle
    /\ token_input_ \in {[buf |-> b, pos |-> 1, eofbit |-> FALSE, failbit |-> FALSE] :
                          b \in Texts(alphabet)}
    /\ vct_tokens_ = <<>>
    /\ dent_ = 0
    /\ current_token_ = 1
    /\ pc = "Lexer"
    /\ error_ = ""
    /\ iter_start = 1
    /\ api_ = NoApi

\* Lexer::Lexer up to the first loop test of ParseTokens
Lexer ==
    /\ pc = "Lexer"
    /\ LET in1 == TrimSpaces(token_input_)
       IN  /\ Commit([Cur EXCEPT !.in = in1, !.dent = 0], LoopTest(in1))
           /\ iter_start' = in1.pos

ParseTokens_ParseString ==
    /\ pc = "ParseString"
    /\ \E uninit \in IF ReadsUninitialized(token_input_) THEN UninitChars ELSE {EOF} :
          Commit(ParseString(Cur, uninit), "ParseKeywords")
    /\ UNCHANGED iter_start

ParseTokens_ParseKeywords ==
    /\ pc = "ParseKeywords"
    /\ Commit(ParseKeywords(Cur), "ParseChars")
    /\ UNCHANGED iter_start

ParseTokens_ParseChars ==
    /\ pc = "ParseChars"
    /\ Commit(ParseChars(Cur), "ParseNumbers")
    /\ UNCHANGED iter_start

ParseTokens_ParseNumbers ==
    /\ pc = "ParseNumbers"
    /\ Commit(ParseNumbers(Cur), "TrimSpaces")
    /\ UNCHANGED iter_start

ParseTokens_TrimSpaces ==
    /\ pc = "TrimSpaces"
    /\ Commit([Cur EXCEPT !.in = TrimSpaces(token_input_)], "ParseNewLine")
    /\ UNCHANGED iter_start

\* the last statement of the loop body, and the loop test that follows it
ParseTokens_ParseNewLine ==
    /\ pc = "ParseNewLine"
    /\ LET L == ParseNewLine(Cur)
       IN  /\ Commit(L, LoopTest(L.in))
           /\ iter_start' = L.in.pos

\* lines 108-119
ParseTokens_Tail ==
    /\ pc = "Tail"
    /\ LET L == ParseTokensTail(Cur)
       IN  /\ token_input_' = L.in
           /\ vct_tokens_' = L.toks
           /\ dent_' = L.dent
           /\ current_token_' = 1
           /\ pc' = "done"
           /\ UNCHANGED <<error_, iter_start, api_, clsVars, objVars>>

LexNext ==
    \/ Lexer
    \/ ParseTokens_ParseString
    \/ ParseTokens_ParseKeywords
    \/ ParseTokens_ParseChars
    \/ ParseTokens_ParseNumbers
    \/ ParseTokens_TrimSpaces
    \/ ParseTokens_ParseNewLine
    \/ ParseTokens_Tail

\* the lexer before its constructor ran, for the specifications of the runtime
LexIdle ==
    /\ token_input_ = [buf |-> <<>>, pos |-> 1, eofbit |-> FALSE, failbit |-> FALSE]
    /\ vct_tokens_ = <<>>
    /\ dent_ = 0
    /\ current_token_ = 1
    /\ pc = "Lexer"
    /\ error_ = ""
    /\ iter_start = 1
    /\ api_ = NoApi

vars == <<lexVars, clsVars, objVars>>

SpecLexer == LexInit(Alphabet) /\ [][LexNext]_vars

\* the lexer is constructed over one of the given texts
LexInitFrom(texts) ==
    /\ ClsInit
    /\ ObjIdle
    /\ token_input_ \in {[buf |-> b, pos |-> 1, eofbit |-> FALSE, failbit |-> FALSE] :
                          b \in texts}
    /\ vct_tokens_ = <<>>
    /\ dent_ = 0
    /\ current_token_ = 1
    /\ pc = "Lexer"
    /\ error_ = ""
    /\ iter_start = 1
    /\ api_ = NoApi

\* longest digit run given to the lexer
MaxDigits == 10

\* digit runs: every run of 0s and 9s, and the two runs around INT_MAX
NumberTexts ==
    UNION {[1..n -> {"0", "9"}] : n \in 0..MaxDigits}
    \cup {<<"2", "1", "4", "7", "4", "8", "3", "6", "4", "7">>,
          <<"2", "1", "4", "7", "4", "8", "3", "6", "4", "8">>}

SpecNumbers == LexInitFrom(NumberTexts) /\ [][LexNext]_vars

\* most characters after the opening quote of a text that starts a literal
MaxStringLen == 4

\* texts that start with a quote and go on with quotes, backslashes, line
\* feeds and letters
StringTexts ==
    {<<q>> \o t : q \in {"'", "\""},
                  t \in UNION {[1..n -> {"'", "\"", "\\", "n", "\n", "a"}] :
                                 n \in 0..MaxStringLen}}

SpecStrings == LexInitFrom(StringTexts) /\ [][LexNext]_vars

----------------------------------------------------------------------------
(* The token interface of a constructed Lexer: CurrentToken, NextToken,    *)
(* Expect and ExpectNext.  The cursor current_token_ is an index into      *)
(* vct_tokens_; vct_tokens_.end() is Len(vct_tokens_) + 1.                 *)

\* Lexer::CurrentToken: *current_token_
CurrentToken(toks, cur) == toks[cur]

\* a variant that wraps around at the last element
NextTokenMutant(toks, cur) == IF Len(toks) + 1 = cur + 1 THEN 1 ELSE cur + 1

\* Lexer::NextToken: the cursor it leaves; it returns the token there
NextToken(toks, cur) == IF Len(toks) + 1 = cur + 1 THEN cur ELSE cur + 1

\* what a call returned or threw
Returned(ret) == [threw |-> "", ret |-> ret]
Thrown(what) == [threw |-> what, ret |-> Tok("")]

\* Lexer::Expect<T>()
Expect(toks, cur, T) ==
    IF CurrentToken(toks, cur).type = T THEN Returned(CurrentToken(toks, cur))
    ELSE Thrown("LexerError")

\* a variant that does not compare the value
ExpectValueMutant(toks, cur, T, value) ==
    LET e == Expect(toks, cur, T)
    IN  IF e.threw # "" THEN e ELSE Returned(Tok(""))

\* Lexer::Expect<T>(value), which returns nothing
ExpectValue(toks, cur, T, value) ==
    LET e == Expect(toks, cur, T)
    IN  IF e.threw # "" THEN e
        ELSE IF e.ret.value # value THEN Thrown("LexerError")
        ELSE Returned(Tok(""))

\* the kinds T and the values the parser expects
ExpectedKinds == {"Id", "Number", "Newline", "Indent", "Dedent", "Eof"}
ValuedKinds == {"Id", "Number"}
ValuesOf(T) == IF T = "Id" THEN {<<"a">>, <<"a", "a">>} ELSE {1, 11}

Api(op, T, value, before, r) ==
    [op |-> op, T |-> T, value |-> value, before |-> before, threw |-> r.threw,
     ret |-> r.ret]

Lexer_CurrentToken ==
    /\ pc = "done"
    /\ api_' = Api("CurrentToken", "", "", current_token_,
                   Returned(CurrentToken(vct_tokens_, current_token_)))
    /\ UNCHANGED <<token_input_, vct_tokens_, dent_, current_token_, pc, error_, iter_start,
                   clsVars, objVars>>

Lexer_NextToken ==
    /\ pc = "done"
    /\ current_token_' = NextToken(vct_tokens_, current_token_)
    /\ api_' = Api("NextToken", "", "", current_token_,
                   Returned(CurrentToken(vct_tokens_, current_token_')))
    /\ UNCHANGED <<token_input_, vct_tokens_, dent_, pc, error_, iter_start, clsVars, objVars>>

Lexer_Expect(T) ==
    /\ pc = "done"
    /\ api_' = Api("Expect", T, "", current_token_, Expect(vct_tokens_, current_token_, T))
    /\ UNCHANGED <<token_input_, vct_tokens_, dent_, current_token_, pc, error_, iter_start,
                   clsVars, objVars>>

Lexer_ExpectValue(T, value) ==
    /\ pc = "done"
    /\ api_' = Api("ExpectValue", T, value, current_token_,
                   ExpectValue(vct_tokens_, current_token_, T, value))
    /\ UNCHANGED <<token_input_, vct_tokens_, dent_, current_token_, pc, error_, iter_start,
                   clsVars, objVars>>

\* Lexer::ExpectNext<T>(): NextToken(); return Expect<T>();
Lexer_ExpectNext(T) ==
    /\ pc = "done"
    /\ current_token_' = NextToken(vct_tokens_, current_token_)
    /\ api_' = Api("ExpectNext", T, "", current_token_, Expect(vct_tokens_, current_token_', T))
    /\ UNCHANGED <<token_input_, vct_tokens_, dent_, pc, error_, iter_start, clsVars, objVars>>

\* Lexer::ExpectNext<T>(value): NextToken(); return Expect<T>(value);
Lexer_ExpectNextValue(T, value) ==
    /\ pc = "done"
    /\ current_token_' = NextToken(vct_tokens_, current_token_)
    /\ api_' = Api("ExpectNextValue", T, value, current_token_,
                   ExpectValue(vct_tokens_, current_token_', T, value))
    /\ UNCHANGED <<token_input_, vct_tokens_, dent_, pc, error_, iter_start, clsVars, objVars>>

CursorNext ==
    \/ LexNext
    \/ Lexer_CurrentToken
    \/ Lexer_NextToken
    \/ \E T \in ExpectedKinds : Lexer_Expect(T)
    \/ \E T \in ValuedKinds : \E value \in ValuesOf(T) : Lexer_ExpectValue(T, value)
    \/ \E T \in ExpectedKinds : Lexer_ExpectNext(T)
    \/ \E T \in ValuedKinds : \E value \in ValuesOf(T) : Lexer_ExpectNextValue(T, value)

\* longest input text of the lexer whose tokens are then read
MaxCursorLen == 3

CursorTexts == UNION {[1..n -> {"a", "1", " ", "\n"}] : n \in 0..MaxCursorLen}

SpecCursor == LexInitFrom(CursorTexts) /\ [][CursorNext]_vars

\* classes are declared and looked up; nothing is lexed
ClassesInit == LexIdle /\ ClsInit /\ ObjIdle

SpecClass == ClassesInit /\ [][ClsNext]_vars

\* methods of instances are called; nothing is lexed
CallsInit == LexIdle /\ CallInit

SpecCall == CallsInit /\ [][CallNext]_vars

\* holders are dereferenced; nothing is lexed
HoldersInit == LexIdle /\ HolderInit

SpecHolder == HoldersInit /\ [][HolderNext]_vars

\* values are compared; nothing is lexed
ComparisonsInit == LexIdle /\ CmpInit

SpecCompare == ComparisonsInit /\ [][CmpNext]_vars

----------------------------------------------------------------------------
(* Properties of the lexer.                                                *)

CountType(toks, t) == Cardinality({i \in 1..Len(toks) : toks[i].type = t})

Max(a, b) == IF a >= b THEN a ELSE b

\* the number of space characters of buf from index i on
RECURSIVE SpacesFrom(_, _)
SpacesFrom(buf, i) ==
    IF i <= Len(buf) /\ buf[i] = " " THEN 1 + SpacesFrom(buf, i + 1) ELSE 0

\* ParseNewLine is about to consume a line terminator
AtLineEnd == pc = "ParseNewLine" /\ PeekChar(token_input_) = "\n"

\* the index of the first character of the line that follows, and the number
\* of its leading spaces
NextLine == token_input_.pos + 1
NextLineSpaces == SpacesFrom(token_input_.buf, NextLine)

\* the line that follows holds a token: its first character after the
\* leading spaces is neither a line terminator nor the start of a comment
NextLineHasToken ==
    LET i == NextLine + NextLineSpaces
    IN  i <= Len(token_input_.buf) /\ token_input_.buf[i] \notin {"\n", "#"}

\* the line that follows is empty or holds spaces only
NextLineIsBlank ==
    LET i == NextLine + NextLineSpaces
    IN  i > Len(token_input_.buf) \/ token_input_.buf[i] = "\n"

IndentsAdded == CountType(vct_tokens_', "Indent") - CountType(vct_tokens_, "Indent")
DedentsAdded == CountType(vct_tokens_', "Dedent") - CountType(vct_tokens_, "Dedent")

\* C2: every iteration of the loop of ParseTokens that starts with a character
\* left to read and does not throw consumes at least one character (so the
\* constructor terminates on every finite input).
C2_IterationConsumes ==
    [][(pc = "ParseNewLine" /\ iter_start <= Len(token_input_.buf) /\ pc' # "error")
         => token_input_'.pos > iter_start]_vars

\* C3: after the indentation computation for a line that holds a token and
\* has s leading spaces, dent_ is s div 2, and the Indent (Dedent) tokens
\* appended are as many as dent_ rose (fell).
C3_DentIsSpacesDiv2 ==
    [][(AtLineEnd /\ NextLineHasToken)
         => /\ dent_' = NextLineSpaces \div DENT_SPACES
            /\ IndentsAdded = Max(dent_' - dent_, 0)
            /\ DedentsAdded = Max(dent_ - dent_', 0)]_vars

\* the number of lines of buf (from index i on) that hold a token; seen says
\* what the running line held so far: "none", "token" or "comment"
RECURSIVE TokenLines(_, _, _)
TokenLines(buf, i, seen) ==
    IF i > Len(buf) THEN (IF seen = "token" THEN 1 ELSE 0)
    ELSE IF buf[i] = "\n"
    THEN (IF seen = "token" THEN 1 ELSE 0) + TokenLines(buf, i + 1, "none")
    ELSE IF seen = "none"
    THEN TokenLines(buf, i + 1,
                    IF buf[i] = " " THEN "none"
                    ELSE IF buf[i] = "#" THEN "comment" ELSE "token")
    ELSE TokenLines(buf, i + 1, seen)

\* C5: a blank or whitespace-only line emits no Indent and no Dedent, and the
\* Newline tokens of a finished tokenization are as many as the input lines
\* that hold a token.
C5_BlankLinesAddNothing ==
    /\ [](pc = "done" =>
            CountType(vct_tokens_, "Newline") = TokenLines(token_input_.buf, 1, "none"))
    /\ [][(AtLineEnd /\ NextLineIsBlank) => (IndentsAdded = 0 /\ DedentsAdded = 0)]_vars

\* C8: dent_ is the number of Indent tokens minus the number of Dedent tokens
\* emitted so far and is never negative, every prefix of the tokens has at
\* least as many Indent as Dedent, and the finished sequence has as many of
\* each and ends with Eof.
C8_DentsBalanced ==
    /\ dent_ = CountType(vct_tokens_, "Indent") - CountType(vct_tokens_, "Dedent")
    /\ dent_ >= 0
    /\ \A k \in 0..Len(vct_tokens_) :
          CountType(SubSeq(vct_tokens_, 1, k), "Indent")
             >= CountType(SubSeq(vct_tokens_, 1, k), "Dedent")
    /\ pc = "done" =>
          /\ CountType(vct_tokens_, "Indent") = CountType(vct_tokens_, "Dedent")
          /\ Back(vct_tokens_).type = "Eof"

\* the number of Dedent tokens that end toks
RECURSIVE TrailingDedents(_)
TrailingDedents(toks) ==
    IF toks # <<>> /\ Back(toks).type = "Dedent"
    THEN 1 + TrailingDedents(SubSeq(toks, 1, Len(toks) - 1))
    ELSE 0

\* toks is ..., Newline, Dedent*, Eof
EndsNewlineDedentsEof(toks) ==
    /\ toks # <<>>
    /\ Back(toks).type = "Eof"
    /\ LET body == SubSeq(toks, 1, Len(toks) - 1)
           rest == SubSeq(body, 1, Len(body) - TrailingDedents(body))
       IN  BackIsNewline(rest)

\* a finished tokenization closed two indentation units at the end of input
C8_Witness ==
    /\ pc = "done"
    /\ Len(vct_tokens_) >= 4
    /\ TrailingDedents(SubSeq(vct_tokens_, 1, Len(vct_tokens_) - 1)) = 2
    /\ CountType(vct_tokens_, "Id") >= 1

\* C9 as stated: every finished token sequence ends with Newline, Dedent*, Eof.
C9_EndsNewlineDedentsEof ==
    pc = "done" => EndsNewlineDedentsEof(vct_tokens_)

\* C9 amended: a finished token sequence is either Eof alone or ends with
\* Newline, Dedent*, Eof.
C9_EofAloneOrEndsNewline ==
    pc = "done" =>
       \/ Len(vct_tokens_) = 1 /\ vct_tokens_[1].type = "Eof"
       \/ EndsNewlineDedentsEof(vct_tokens_)

\* an input without a final line terminator got its Newline and one Dedent
C9_Witness ==
    /\ pc = "done"
    /\ token_input_.buf # <<>>
    /\ token_input_.buf[Len(token_input_.buf)] = "a"
    /\ Len(vct_tokens_) >= 4
    /\ vct_tokens_[Len(vct_tokens_) - 1].type = "Dedent"
    /\ vct_tokens_[Len(vct_tokens_) - 2].type = "Newline"

\* C11: every failure of tokenization is a LexerError, also that of a digit
\* run whose value does not fit an int; a digit run that fits yields one
\* Number token carrying its decimal value.
C11_FailuresAreLexerErrors ==
    /\ pc = "error" => error_ = "LexerError"
    /\ (pc = "done" /\ token_input_.buf # <<>>
           /\ \A i \in 1..Len(token_input_.buf) : isdigit(token_input_.buf[i]))
          => /\ CountType(vct_tokens_, "Number") = 1
             /\ vct_tokens_[1] = ValTok("Number", Decimal(token_input_.buf))

----------------------------------------------------------------------------
(* The six comparisons on operands a built-in rule decides.                *)

SameBuiltinKind(l, r) == l.kind \in BuiltinKinds /\ r.kind = l.kind
BothEmpty(l, r) == l = None /\ r = None

\* the six comparisons of cmp.lhs and cmp.rhs, none of which calls a method
SixOutcomes ==
    LET b == Body("return_value", "", "", None)
        l == cmp.lhs
        r == cmp.rhs
    IN  [Equal |-> Equal(classes, heap, l, r, b, "crash"),
         Less |-> Less(classes, heap, l, r, b, "crash"),
         NotEqual |-> NotEqual(classes, heap, l, r, b, "crash"),
         Greater |-> Greater(classes, heap, l, r, b, b, "crash", "crash"),
         LessOrEqual |-> LessOrEqual(classes, heap, l, r, b, b, "crash", "crash"),
         GreaterOrEqual |-> GreaterOrEqual(classes, heap, l, r, b, "crash")]

\* all six succeed, the derived four agree with Equal and Less, exactly one
\* of Less, Equal and Greater is true, and the comparison made returned the
\* value of its function
SixConsistent ==
    LET six == SixOutcomes
    IN  /\ \A f \in DOMAIN six : six[f].threw = ""
        /\ six.NotEqual.value = ~six.Equal.value
        /\ six.LessOrEqual.value = (six.Less.value \/ six.Equal.value)
        /\ six.GreaterOrEqual.value = ~six.Less.value
        /\ six.Greater.value = ~(six.Less.value \/ six.Equal.value)
        /\ Cardinality({f \in {"Less", "Equal", "Greater"} : six[f].value}) = 1
        /\ six.Equal.value => (six.LessOrEqual.value /\ six.GreaterOrEqual.value)
        /\ cmp.threw = ""
        /\ cmp.value = six[cmp.op].value

\* C12 as stated: on two empty operands and on two operands of one built-in
\* kind the six comparisons all succeed and are mutually consistent.
C12_SixConsistent ==
    (cmp.op \in Comparisons \cup Comparisons2
        /\ (BothEmpty(cmp.lhs, cmp.rhs) \/ SameBuiltinKind(cmp.lhs, cmp.rhs)))
        => SixConsistent

\* C12 amended: on two operands of one built-in kind the six comparisons all
\* succeed and are mutually consistent; on two empty operands Equal is true
\* and NotEqual false, and Less, Greater, LessOrEqual and GreaterOrEqual fail
\* with the "cannot compare" error of Less.
C12_SixConsistentOnBuiltinKinds ==
    /\ (cmp.op \in Comparisons \cup Comparisons2 /\ SameBuiltinKind(cmp.lhs, cmp.rhs))
          => SixConsistent
    /\ (cmp.op \in Comparisons \cup Comparisons2 /\ BothEmpty(cmp.lhs, cmp.rhs)) =>
          CASE cmp.op = "Equal" -> cmp.threw = "" /\ cmp.value = TRUE
            [] cmp.op = "NotEqual" -> cmp.threw = "" /\ cmp.value = FALSE
            [] OTHER -> cmp.threw = "runtime_error: Cannot compare objects for less"

\* LessOrEqual of two equal Strings returned true, after Less returned false
C12_Witness ==
    /\ cmp.op = "LessOrEqual"
    /\ cmp.lhs = Holder("String", <<"a", "b">>)
    /\ cmp.rhs = cmp.lhs
    /\ cmp.threw = ""
    /\ cmp.value = TRUE

----------------------------------------------------------------------------
(* The cursor and the assertions of the token interface.                   *)

\* where the specification leaves the cursor after advancing from cur
Advanced(cur) == IF cur = Len(vct_tokens_) THEN cur ELSE cur + 1

\* C13: the cursor of a constructed lexer points at an element of the token
\* sequence and never moves backward; CurrentToken returns the token at the
\* cursor and leaves it; NextToken advances by one and returns the new
\* current token, but at the last element, Eof, it stays and returns Eof.
C13_CursorStaysInside ==
    pc = "done" =>
        /\ current_token_ \in 1..Len(vct_tokens_)
        /\ api_.op # "" => api_.before <= current_token_
        /\ api_.op = "CurrentToken" =>
              /\ api_.threw = ""
              /\ current_token_ = api_.before
              /\ api_.ret = vct_tokens_[api_.before]
        /\ api_.op = "NextToken" =>
              /\ api_.threw = ""
              /\ current_token_ = Advanced(api_.before)
              /\ api_.ret = vct_tokens_[current_token_]
              /\ api_.before = Len(vct_tokens_) => api_.ret = Tok("Eof")

\* NextToken was called at the Eof of a sequence of several tokens
C13_Witness ==
    /\ pc = "done"
    /\ api_.op = "NextToken"
    /\ Len(vct_tokens_) >= 3
    /\ api_.before = Len(vct_tokens_)
    /\ current_token_ = api_.before
    /\ api_.ret = Tok("Eof")

\* the current token is of kind T, and holds value when one is expected
Meets(tok, T, value, valued) ==
    IF tok.type # T THEN FALSE ELSE (valued => tok.value = value)

\* C17: Expect<T>() succeeds, returning the current token, iff it is of kind
\* T, and Expect<T>(v) iff its value is v as well; otherwise they fail with
\* a LexerError; the cursor stays.  The ExpectNext forms do the same after
\* advancing the cursor as NextToken does, whether they succeed or fail.
C17_ExpectChecksKindAndValue ==
    (pc = "done" /\ api_.op \in {"Expect", "ExpectValue", "ExpectNext", "ExpectNextValue"}) =>
        LET valued == api_.op \in {"ExpectValue", "ExpectNextValue"}
            next == api_.op \in {"ExpectNext", "ExpectNextValue"}
            tok == vct_tokens_[current_token_]
        IN  /\ current_token_ = IF next THEN Advanced(api_.before) ELSE api_.before
            /\ api_.threw = "" <=> Meets(tok, api_.T, api_.value, valued)
            /\ api_.threw # "" => api_.threw = "LexerError"
            /\ (api_.threw = "" /\ ~valued) => api_.ret = tok

\* ExpectNext<Id>(v) advanced to an Id of another value and failed
C17_Witness ==
    /\ pc = "done"
    /\ api_.op = "ExpectNextValue"
    /\ api_.T = "Id"
    /\ current_token_ = api_.before + 1
    /\ vct_tokens_[current_token_].type = "Id"
    /\ api_.threw = "LexerError"

----------------------------------------------------------------------------
(* String literals.                                                        *)

\* the character an escape denotes
Denotes(c) == CASE c = "n" -> "\n" [] c = "t" -> "\t" [] c = "r" -> "\r" [] OTHER -> c

\* the literal the specification reads in buf from index i on, opened by the
\* quote begin: closed by the first unescaped begin, failing at the end of
\* buf, at an unescaped line feed or carriage return and at any escape but
\* \n \t \r \" \' \\
RECURSIVE Literal(_, _, _, _)
Literal(buf, i, begin, value) ==
    IF i > Len(buf) THEN [ok |-> FALSE, value |-> <<>>]
    ELSE IF buf[i] = begin THEN [ok |-> TRUE, value |-> value]
    ELSE IF buf[i] \in {"\n", "\r"} THEN [ok |-> FALSE, value |-> <<>>]
    ELSE IF buf[i] = "\\"
    THEN IF i + 1 <= Len(buf) /\ buf[i + 1] \in {"n", "t", "r", "\"", "'", "\\"}
         THEN Literal(buf, i + 2, begin, Append(value, Denotes(buf[i + 1])))
         ELSE [ok |-> FALSE, value |-> <<>>]
    ELSE Literal(buf, i + 1, begin, Append(value, buf[i]))

\* ParseString has met the quote that opens the text
FirstLiteralScanned ==
    /\ token_input_.buf # <<>>
    /\ token_input_.buf[1] \in {"'", "\""}
    /\ pc # "Lexer"
    /\ ~(pc = "ParseString" /\ token_input_.pos = 1 /\ vct_tokens_ = <<>>)

\* C14: a literal closed by the first unescaped occurrence of its quote
\* yields one String token holding the text with its escapes replaced; a
\* literal cut by the end of the stream, holding an unescaped line feed or
\* carriage return or another escape fails with a LexerError and yields no
\* String token.
C14_StringLiterals ==
    FirstLiteralScanned =>
        LET lit == Literal(token_input_.buf, 2, token_input_.buf[1], <<>>)
        IN  IF lit.ok
            THEN vct_tokens_ # <<>> /\ vct_tokens_[1] = ValTok("String", lit.value)
            ELSE pc = "error" /\ error_ = "LexerError" /\ vct_tokens_ = <<>>

----------------------------------------------------------------------------
(* The shape of the token sequence.                                        *)

\* C15: the token sequence of a constructed lexer is not empty, ends with
\* Eof and holds no other Eof.
C15_ExactlyOneEofLast ==
    pc = "done" =>
        /\ vct_tokens_ # <<>>
        /\ Back(vct_tokens_).type = "Eof"
        /\ CountType(vct_tokens_, "Eof") = 1

\* a text of two identifiers was tokenized
C15_Witness ==
    /\ pc = "done"
    /\ CountType(vct_tokens_, "Id") = 2
    /\ Back(vct_tokens_) = Tok("Eof")

\* C16: no two adjacent tokens are both Newline, at any time of the
\* tokenization.
C16_NoAdjacentNewlines ==
    \A i \in 1..Len(vct_tokens_) - 1 :
        ~(vct_tokens_[i].type = "Newline" /\ vct_tokens_[i + 1].type = "Newline")

\* a text with an identifier, a blank line and another identifier was
\* tokenized
C16_Witness ==
    /\ pc = "done"
    /\ token_input_.buf = <<"a", "\n", "\n", "a">>
    /\ CountType(vct_tokens_, "Newline") = 2

IsDent(tok) == tok.type \in {"Indent", "Dedent"}

\* C19: an Indent is never adjacent to a Dedent, the first token of every run
\* of Indents or Dedents follows a Newline, and so the first token of the
\* sequence is no Indent and no Dedent.
C19_DentRunsFollowNewline ==
    pc = "done" =>
        /\ \A i \in 1..Len(vct_tokens_) - 1 :
              (IsDent(vct_tokens_[i]) /\ IsDent(vct_tokens_[i + 1]))
                  => vct_tokens_[i].type = vct_tokens_[i + 1].type
        /\ \A i \in 1..Len(vct_tokens_) :
              (IsDent(vct_tokens_[i]) /\ (i = 1 \/ ~IsDent(vct_tokens_[i - 1])))
                  => (i > 1 /\ vct_tokens_[i - 1].type = "Newline")

\* C20: no Char token carries a quote: a quote outside a literal and a
\* comment always opens a string literal.
C20_NoQuoteChar ==
    \A i \in 1..Len(vct_tokens_) :
        vct_tokens_[i].type = "Char" => vct_tokens_[i].value \notin {"'", "\""}

----------------------------------------------------------------------------
(* Truth of a value.                                                       *)

\* C18: IsTrue never fails; it is true of the Bool true, of a Number other
\* than 0 and of a String that is not empty, and false of everything else:
\* the empty holder, false, 0, the empty String, every Class and every
\* instance.
C18_IsTrueOfScalarsOnly ==
    cmp.op = "IsTrue" =>
        /\ cmp.threw = ""
        /\ cmp.value <=>
              \/ cmp.lhs = Holder("Bool", TRUE)
              \/ cmp.lhs.kind = "Number" /\ cmp.lhs.val \in (Int \ {0})
              \/ cmp.lhs.kind = "String" /\ Len(cmp.lhs.val) > 0
        /\ cmp.lhs.kind \in {"None", "Class", "Own", "Share"} => ~cmp.value

\* IsTrue of an instance that has a field and a class with methods was false
C18_Witness ==
    /\ cmp.op = "IsTrue"
    /\ cmp.lhs = Own(2)
    /\ heap[2].alive
    /\ DOMAIN heap[2].fields_ # {}
    /\ DOMAIN classes[2].v_table_ # {}
    /\ cmp.value = FALSE

----------------------------------------------------------------------------
(* The derived comparisons evaluate Less and Equal anew, in a fixed order.  *)

DerivedComparisons == {"NotEqual", "Greater", "LessOrEqual", "GreaterOrEqual"}

\* the functions cmp evaluated, in order
EvaluatedFunctions == [k \in 1..Len(cmp.evaluated) |-> cmp.evaluated[k].f]

\* the methods cmp called, in order
CalledMethods == [k \in 1..Len(cmp.calls) |-> cmp.calls[k].method]

\* how often s has x
Occurrences(s, x) == Cardinality({k \in 1..Len(s) : s[k] = x})

\* the left operand of cmp is an instance whose class resolves method to a
\* method of exactly one formal parameter
LeftDeclares(method) ==
    /\ IsInstance(cmp.lhs)
    /\ LET v_table_ == classes[heap[cmp.lhs.val].class_].v_table_
       IN  /\ method \in DOMAIN v_table_
           /\ Len(Deref(classes, v_table_[method]).formal_params) = 1

\* C21: Greater and LessOrEqual evaluate Less first and Equal only when Less
\* returned false; GreaterOrEqual evaluates only Less and NotEqual only
\* Equal.  Each evaluation invokes the override of the left operand anew, so
\* one derived comparison invokes __lt__ at most once and __eq__ at most
\* once, __lt__ before __eq__; when Less returned true or failed, Equal is
\* not evaluated: no __eq__ is invoked and no failure of Equal is reported.
C21_DerivedEvaluateInOrder ==
    cmp.op \in DerivedComparisons =>
        /\ cmp.op \in {"Greater", "LessOrEqual"} =>
              /\ Len(cmp.evaluated) \in 1..2
              /\ cmp.evaluated[1].f = "Less"
              /\ Len(cmp.evaluated) = 2 <=>
                    (cmp.evaluated[1].threw = "" /\ ~cmp.evaluated[1].value)
              /\ Len(cmp.evaluated) = 2 => cmp.evaluated[2].f = "Equal"
              /\ cmp.threw = cmp.evaluated[Len(cmp.evaluated)].threw
              /\ cmp.threw = "" =>
                    LET either == \E k \in 1..Len(cmp.evaluated) : cmp.evaluated[k].value
                    IN  cmp.value = IF cmp.op = "Greater" THEN ~either ELSE either
        /\ cmp.op = "GreaterOrEqual" =>
              /\ EvaluatedFunctions = <<"Less">>
              /\ cmp.threw = "" => cmp.value = ~cmp.evaluated[1].value
        /\ cmp.op = "NotEqual" =>
              /\ EvaluatedFunctions = <<"Equal">>
              /\ cmp.threw = "" => cmp.value = ~cmp.evaluated[1].value
        /\ Occurrences(CalledMethods, "__lt__") =
              IF LeftDeclares("__lt__") THEN Occurrences(EvaluatedFunctions, "Less") ELSE 0
        /\ Occurrences(CalledMethods, "__eq__") =
              IF LeftDeclares("__eq__") /\ ~(cmp.lhs = None /\ cmp.rhs = None)
              THEN Occurrences(EvaluatedFunctions, "Equal") ELSE 0
        /\ Occurrences(CalledMethods, "__lt__") <= 1
        /\ Occurrences(CalledMethods, "__eq__") <= 1
        /\ Len(cmp.calls) <= 2
        /\ \A i, j \in 1..Len(cmp.calls) :
              (CalledMethods[i] = "__lt__" /\ CalledMethods[j] = "__eq__") => i < j
        /\ (cmp.evaluated[1].f = "Less"
              /\ (cmp.evaluated[1].threw # "" \/ cmp.evaluated[1].value)) =>
              /\ Occurrences(CalledMethods, "__eq__") = 0
              /\ cmp.threw # "runtime_error: Cannot compare objects for equality"
              /\ cmp.threw = cmp.evaluated[1].threw

\* Greater of an instance that overrides both methods: __lt__ returned false,
\* then __eq__ returned false, and the instance is greater
C21_Witness ==
    /\ cmp.op = "Greater"
    /\ cmp.lhs = Own(2)
    /\ CalledMethods = <<"__lt__", "__eq__">>
    /\ cmp.calls[1].result = Holder("Bool", FALSE)
    /\ cmp.calls[2].result = Holder("Bool", FALSE)
    /\ cmp.threw = ""
    /\ cmp.value = TRUE

----------------------------------------------------------------------------
(* Dereferencing an empty holder.                                          *)

\* C22: the dereference of an empty holder, by operator* or by operator->,
\* ends in an exception of the kind of the "undefined method" and "cannot
\* compare" errors (std::runtime_error, which is no LexerError); the process
\* is not terminated, so that the caller can catch it.
C22_EmptyDerefIsRuntimeError ==
    (deref_.dereferenced /\ deref_.holder = None) =>
        /\ deref_.threw = "runtime_error"
        /\ deref_.threw # "LexerError"
        /\ deref_.signal = ""

====
